---- MODULE Spec2Model ----
(***************************************************************************)
(* Chart data of python-pptx: ChartData / ChartDataMoreDetails and their   *)
(* series objects (src/pptx/chart/data.py), the worksheet writer           *)
(* (src/pptx/chart/xlsx.py) and the reader side of the series markup       *)
(* (src/pptx/oxml/chart/series.py).                                        *)
(*                                                                         *)
(* Text is a sequence of one-character strings, so that escaping, number   *)
(* formatting and parsing are computed and not assumed.  A rendered XML    *)
(* fragment is a record holding the parts the templates splice together:   *)
(* the reference formula, the declared point count and the points, each    *)
(* point with the text of its idx attribute and of its <c:v> child.        *)
(***************************************************************************)
EXTENDS Integers, Sequences, FiniteSets, TLC

VARIABLES
    cls,              \* class of the data set object: "ChartData" or "ChartDataMoreDetails"
    _categories,      \* contents of the list object ChartData._categories
    _series_lst,      \* ChartData._series_lst
    _categories_len,  \* ChartDataMoreDetails._categories_len
    _values_len,      \* ChartDataMoreDetails._values_len
    warnings,         \* the warnings.warn calls made by the latest operation
    ser,              \* the parsed <c:ser> element a reader holds
    result            \* what the latest read of ser returned or raised

vars == <<cls, _categories, _series_lst, _categories_len, _values_len, warnings,
          ser, result>>

----------------------------------------------------------------------------
(* Bounds of the model *)

\* most series added to one data set
MaxSeries == 2
\* largest length a caller assigns to values_len / categories_len
MaxLen == 2
\* largest point index a caller supplies in a sparse (idx, value) sequence
MaxIdx == 2
\* most series added to the data set of SpecCapacity
MaxCapSeries == 26
\* most <c:pt> elements in a parsed cache
MaxPts == 3

----------------------------------------------------------------------------
(* Python values *)

\* Python's None where an integer is expected.  Python 2 orders None below
\* every integer (None < 0, not 0 < None), which the encoding keeps.
None == -1

\* bool(x) of an integer-or-None x
Truthy(x) == x # None /\ x # 0

\* a or b
PyOr(a, b) == IF Truthy(a) THEN a ELSE b

Range(s) == {s[i] : i \in DOMAIN s}

SetMax(S) == CHOOSE m \in S : \A n \in S : n <= m

\* max(i[0] for i in pairs); ValueError on an empty sequence (see the guards)
MaxIndex(pairs) == SetMax({p[1] : p \in Range(pairs)})

RECURSIVE Concat(_)
Concat(ss) == IF ss = <<>> THEN <<>> ELSE Head(ss) \o Concat(Tail(ss))

----------------------------------------------------------------------------
(* Inputs *)

ClsSimple == "ChartData"
ClsDetailed == "ChartDataMoreDetails"

\* series names
Names == {<<"s">>, <<"a", "&", "b">>, <<"\"">>}

\* category labels of a flat category sequence
Labels == {<<"a">>, <<"&">>}

\* flat categories: sequences of at most n label strings
FlatCategories(n) == UNION {[1..k -> Labels] : k \in 0..n}

\* dense values of a Simple series: numbers in sequence
DenseValues == {<<>>, <<7>>, <<7, 120>>, <<120, 7, 0>>}

\* sparse (idx, value) sequences of a Detailed series, not all in index order
SparseA == <<<<0, 7>>, <<1, 120>>>>
SparseB == <<<<MaxIdx, 9>>, <<0, 7>>>>
SparseC == <<<<MaxIdx + 1, 120>>>>
SparseValues == {SparseA, SparseB, SparseC}

\* sparse category levels, each a sequence of (idx, label)
LevelA == <<<<0, <<"a">>>>, <<1, <<"b">>>>>>
LevelB == <<<<MaxIdx, <<"y">>>>, <<0, <<"&">>>>>>

\* categories of a Detailed data set: one level and two levels
LevelCategories == {<<LevelA>>, <<LevelA, LevelB>>, <<LevelB, LevelA>>}

\* lengths a caller assigns
Lens == 0..MaxLen

\* format codes a caller passes; NoFormatCode is format_code=None
NoFormatCode == "None"
FormatCodes == {NoFormatCode, "0.00%"}

\* the narrower inputs of the specification with several series
FewNames == {<<"s">>}
FewSparseValues == {SparseA, SparseB}
FewLevelCategories == {<<LevelA>>, <<LevelA, LevelB>>}
FewLens == 1..MaxLen
FewFormatCodes == {NoFormatCode}

----------------------------------------------------------------------------
(* Objects *)

\* A series holds its categories by reference: either the data set's own list
\* object, whose contents are the variable _categories, or a tuple object.
ListRef == [obj |-> "list"]

TupleOf(items) == [obj |-> "tuple", items |-> items]

\* the sequence a series sees through its _categories reference
Deref(ref) == IF ref.obj = "list" THEN _categories ELSE ref.items

\* ChartData.categories (getter): tuple(self._categories), a new object
categories == TupleOf(_categories)

\* _SeriesData.__init__
_SeriesData(series_idx, name, values, cats) ==
    [_series_idx |-> series_idx, _name |-> name, _values |-> values,
     _categories |-> cats]

\* the categories_len that _SeriesDataMoreDetails.__init__ stores
InitCategoriesLen(cats, categories_len) ==
    IF categories_len = None /\ Len(Deref(cats)) # 0
    THEN SetMax({MaxIndex(lvl) : lvl \in Range(Deref(cats))}) + 1
    ELSE categories_len

\* the values_len that _SeriesDataMoreDetails.__init__ stores
InitValuesLen(values, values_len) ==
    IF Truthy(values_len) THEN values_len ELSE MaxIndex(values) + 1

\* the _auto_values_len flag that _SeriesDataMoreDetails.__init__ stores
InitAutoValuesLen(values_len) == IF Truthy(values_len) THEN TRUE ELSE FALSE

\* mutant of InitFormatCode: the argument is dropped
InitFormatCodeDropped(format_code) == "General"

\* format_code or 'General'
InitFormatCode(format_code) ==
    IF format_code = NoFormatCode \/ format_code = "" THEN "General" ELSE format_code

\* _SeriesDataMoreDetails.__init__ raises ValueError (max() of an empty
\* sequence) for these arguments
InitRaises(values, cats, values_len, categories_len) ==
    \/ ~Truthy(values_len) /\ values = <<>>
    \/ /\ categories_len = None
       /\ Len(Deref(cats)) # 0
       /\ \E lvl \in Range(Deref(cats)) : lvl = <<>>

\* _SeriesDataMoreDetails.__init__; supplied records the values_len argument
_SeriesDataMoreDetails(series_idx, name, values, cats, values_len, categories_len, format_code) ==
    [_series_idx |-> series_idx, _name |-> name, _values |-> values,
     _categories |-> cats,
     _values_len |-> InitValuesLen(values, values_len),
     _auto_values_len |-> InitAutoValuesLen(values_len),
     _categories_len |-> InitCategoriesLen(cats, categories_len),
     _format_code |-> InitFormatCode(format_code),
     supplied |-> (values_len # None)]

WarnDifferent == "Categories and Values have different lengths"
WarnLess == "Length of values is less than that of categories"

\* the warnings raised by _SeriesDataMoreDetails.__init__
InitWarnings(s) ==
    IF s._values_len # s._categories_len THEN {WarnDifferent} ELSE {}

----------------------------------------------------------------------------
(* Operations *)

\* no markup has been parsed, nothing has been read
NotParsed == [parsed |-> FALSE]
NotRead == [op |-> "none"]

Init ==
    /\ cls \in {ClsSimple, ClsDetailed}
    /\ _categories = <<>>
    /\ _series_lst = <<>>
    /\ _categories_len = None
    /\ _values_len = None
    /\ warnings = {}
    /\ ser = NotParsed
    /\ result = NotRead

\* mutant of NextSeriesIdx: the count after the append
NextSeriesIdxAfterAppend == Len(_series_lst) + 1

\* the index ChartData.add_series gives the new series
NextSeriesIdx == Len(_series_lst)

\* ChartData.add_series(name, values)
ChartData_add_series(name, values) ==
    /\ cls = ClsSimple
    /\ _series_lst' = Append(_series_lst,
                             _SeriesData(NextSeriesIdx, name, values, ListRef))
    /\ warnings' = {}
    /\ UNCHANGED <<cls, _categories, _categories_len, _values_len, ser, result>>

\* the categories object ChartDataMoreDetails.add_series hands to the series
DetailedSeriesCategories == categories

\* ChartDataMoreDetails.add_series(name, values, values_len, format_code)
ChartDataMoreDetails_add_series(name, values, values_len, format_code) ==
    /\ cls = ClsDetailed
    /\ LET vl == PyOr(values_len, _values_len)
           cats == DetailedSeriesCategories
       IN /\ ~InitRaises(values, cats, vl, _categories_len)
          /\ LET series == _SeriesDataMoreDetails(
                               NextSeriesIdx, name, values, cats, vl,
                               _categories_len, format_code)
             IN /\ _series_lst' = Append(_series_lst, series)
                /\ warnings' = InitWarnings(series)
    /\ UNCHANGED <<cls, _categories, _categories_len, _values_len, ser, result>>

\* ChartData.categories (setter): self._categories[:] = categories
ChartData_set_categories(cats) ==
    /\ _categories' = cats
    /\ warnings' = {}
    /\ UNCHANGED <<cls, _series_lst, _categories_len, _values_len, ser, result>>

\* ChartDataMoreDetails.categories_len (setter)
ChartDataMoreDetails_set_categories_len(value) ==
    /\ cls = ClsDetailed
    /\ _categories_len' = value
    /\ _series_lst' = [i \in DOMAIN _series_lst |->
                          [_series_lst[i] EXCEPT !._categories_len = value]]
    /\ warnings' = {}
    /\ UNCHANGED <<cls, _categories, _values_len, ser, result>>

\* the warnings raised by ChartDataMoreDetails.values_len (setter)
SetValuesLenWarnings(value) ==
    IF value < _categories_len THEN {WarnLess} ELSE {}

\* ChartDataMoreDetails.values_len (setter)
ChartDataMoreDetails_set_values_len(value) ==
    /\ cls = ClsDetailed
    /\ _values_len' = value
    /\ warnings' = SetValuesLenWarnings(value)
    /\ _series_lst' = [i \in DOMAIN _series_lst |->
                          [_series_lst[i] EXCEPT !._values_len = value]]
    /\ UNCHANGED <<cls, _categories, _categories_len, ser, result>>

\* _SeriesDataMoreDetails.categories_len (setter) on series[i]
Series_set_categories_len(i, value) ==
    /\ cls = ClsDetailed
    /\ _series_lst' = [_series_lst EXCEPT ![i]._categories_len = value]
    /\ warnings' = {}
    /\ UNCHANGED <<cls, _categories, _categories_len, _values_len, ser, result>>

\* _SeriesDataMoreDetails.values_len (setter) on series[i]
Series_set_values_len(i, value) ==
    /\ cls = ClsDetailed
    /\ _series_lst' = [_series_lst EXCEPT ![i]._values_len = value]
    /\ warnings' = {}
    /\ UNCHANGED <<cls, _categories, _categories_len, _values_len, ser, result>>

\* _SeriesDataMoreDetails.name (setter) on series[i]
Series_set_name(i, value) ==
    /\ cls = ClsDetailed
    /\ _series_lst' = [_series_lst EXCEPT ![i]._name = value]
    /\ warnings' = {}
    /\ UNCHANGED <<cls, _categories, _categories_len, _values_len, ser, result>>

\* the values_len a series has after _SeriesDataMoreDetails.values (setter);
\* with an empty sequence in auto mode max() raises and the old length stays
ValuesLenAfterSetValues(s, values) ==
    IF s._auto_values_len /\ values # <<>>
    THEN MaxIndex(values) + 1
    ELSE s._values_len

\* _SeriesDataMoreDetails.values (setter) on series[i]
Series_set_values(i, values) ==
    /\ cls = ClsDetailed
    /\ _series_lst' =
           [_series_lst EXCEPT
               ![i]._values = values,
               ![i]._values_len = ValuesLenAfterSetValues(_series_lst[i], values)]
    /\ warnings' = {}
    /\ UNCHANGED <<cls, _categories, _categories_len, _values_len, ser, result>>

----------------------------------------------------------------------------
(* Text: formatting, escaping, column names *)

Digits == <<"0", "1", "2", "3", "4", "5", "6", "7", "8", "9">>

\* decimal digits of a natural number
RECURSIVE NatStr(_)
NatStr(n) ==
    IF n < 10 THEN <<Digits[n + 1]>>
    ELSE NatStr(n \div 10) \o <<Digits[(n % 10) + 1]>>

\* '%d' % n and '%s' % n of an integer n
PyStr(n) == IF n < 0 THEN <<"-">> \o NatStr(-n) ELSE NatStr(n)

\* xml.sax.saxutils.escape on one character: & then > then < are replaced
EscapeChar(c) ==
    CASE c = "&" -> <<"&", "a", "m", "p", ";">>
      [] c = "<" -> <<"&", "l", "t", ";">>
      [] c = ">" -> <<"&", "g", "t", ";">>
      [] OTHER -> <<c>>

\* xml.sax.saxutils.escape(text)
escape(text) == Concat([i \in DOMAIN text |-> EscapeChar(text[i])])

\* the characters from 'A' on, in code point order ("grave" stands for the
\* grave accent, code point 96, which a TLA+ string cannot hold)
AsciiFromA ==
    <<"A", "B", "C", "D", "E", "F", "G", "H", "I", "J", "K", "L", "M",
      "N", "O", "P", "Q", "R", "S", "T", "U", "V", "W", "X", "Y", "Z",
      "[", "\\", "]", "^", "_", "grave",
      "a", "b", "c", "d", "e", "f", "g", "h", "i", "j", "k", "l", "m",
      "n", "o", "p", "q", "r", "s", "t", "u", "v", "w", "x", "y", "z">>

\* ord(c) - ord('A') + 1
OrdFromA(c) == CHOOSE i \in DOMAIN AsciiFromA : AsciiFromA[i] = c

\* the capital letters, which are the digits of a column name
IsCapital(c) == \E i \in 1..26 : AsciiFromA[i] = c

\* xlsxwriter.utility.xl_col_to_name on col_num = col + 1
RECURSIVE ColStr(_)
ColStr(col_num) ==
    IF col_num <= 0 THEN <<>>
    ELSE LET r == col_num % 26
             remainder == IF r = 0 THEN 26 ELSE r
         IN ColStr((col_num - 1) \div 26) \o <<AsciiFromA[remainder]>>

\* xlsxwriter.utility.xl_col_to_name(col), col counted from 0
xl_col_to_name(col) == ColStr(col + 1)

\* the column, counted from 0, that a spreadsheet reads a column name as;
\* None when the text is no column name
RECURSIVE ColNum(_)
ColNum(name) ==
    IF name = <<>> THEN 0
    ELSE 26 * ColNum(SubSeq(name, 1, Len(name) - 1)) + OrdFromA(name[Len(name)])

ColumnOf(name) ==
    IF name # <<>> /\ \A i \in DOMAIN name : IsCapital(name[i])
    THEN ColNum(name) - 1
    ELSE None

\* "Sheet1!$<col>$<row>"
CellRef(col, row) == [sheet |-> "Sheet1", col |-> col, row |-> row]

\* "Sheet1!$<col1>$<row1>:$<col2>$<row2>"
RangeRef(col1, row1, col2, row2) ==
    [sheet |-> "Sheet1", col1 |-> col1, row1 |-> row1, col2 |-> col2, row2 |-> row2]

\* one <c:pt idx="..."><c:v>...</c:v></c:pt>
Pt(idx, v) == [idx |-> PyStr(idx), v |-> v]

----------------------------------------------------------------------------
(* _SeriesData: the fragments of a Simple series *)

\* _SeriesData._col_letter: chr(ord('B') + self._series_idx)
SeriesData_col_letter(s) == <<AsciiFromA[OrdFromA("B") + s._series_idx]>>

\* _SeriesData._categories_ref
SeriesData_categories_ref(s) ==
    RangeRef(<<"A">>, 2, <<"A">>, Len(Deref(s._categories)) + 1)

\* _SeriesData._cat_pt_xml
SeriesData_cat_pt_xml(s) ==
    LET cats == Deref(s._categories)
    IN [i \in DOMAIN cats |-> Pt(i - 1, cats[i])]

\* _SeriesData.cat_xml with _cat_tmpl
SeriesData_cat_xml(s) ==
    [present |-> TRUE, ref |-> "strRef", f |-> SeriesData_categories_ref(s),
     ptCount |-> Len(Deref(s._categories)),
     lvl |-> <<>>, pt |-> SeriesData_cat_pt_xml(s)]

\* _SeriesData._values_ref
SeriesData_values_ref(s) ==
    RangeRef(SeriesData_col_letter(s), 2,
             SeriesData_col_letter(s), Len(s._values) + 1)

\* _SeriesData._val_pt_xml
SeriesData_val_pt_xml(s) ==
    [i \in DOMAIN s._values |-> Pt(i - 1, PyStr(s._values[i]))]

\* _SeriesData.val_xml with _val_tmpl
SeriesData_val_xml(s) ==
    [present |-> TRUE, ref |-> "numRef", f |-> SeriesData_values_ref(s),
     formatCode |-> "General", ptCount |-> Len(s._values),
     lvl |-> <<>>, pt |-> SeriesData_val_pt_xml(s)]

----------------------------------------------------------------------------
(* _SeriesDataMoreDetails: the fragments of a Detailed series *)

\* _SeriesDataMoreDetails.is_cat_multilvl
is_cat_multilvl(s) == Len(Deref(s._categories)) > 1

\* _SeriesDataMoreDetails.prefix, with the Ref suffix of the template
prefix(s) == IF is_cat_multilvl(s) THEN "multiLvlStrRef" ELSE "strRef"

\* _SeriesDataMoreDetails._col_letter
MoreDetails_col_letter(s) ==
    LET n == Len(Deref(s._categories))
    IN xl_col_to_name((IF n > 1 THEN n ELSE 1) + s._series_idx)

\* _SeriesDataMoreDetails._categories_ref:
\* "Sheet1!$A$2:" + xl_rowcol_to_cell(categories_len, len(categories) - 1)
MoreDetails_categories_ref(s) ==
    RangeRef(<<"A">>, 2,
             xl_col_to_name(Len(Deref(s._categories)) - 1), s._categories_len + 1)

\* the <c:pt> of one level: the points with idx < categories_len, in order
RECURSIVE LevelPts(_, _)
LevelPts(lvl, categories_len) ==
    IF lvl = <<>> THEN <<>>
    ELSE (IF Head(lvl)[1] < categories_len
          THEN <<Pt(Head(lvl)[1], Head(lvl)[2])>> ELSE <<>>)
         \o LevelPts(Tail(lvl), categories_len)

\* mutant of LevelOrder: the levels in declaration order
LevelOrderForward(n) == [i \in 1..n |-> i]

\* the order in which _cat_pt_xml walks the levels: range(len) reversed
LevelOrder(n) == [i \in 1..n |-> n + 1 - i]

\* _SeriesDataMoreDetails._cat_pt_xml: the level blocks, each with its points
MoreDetails_cat_blocks(s) ==
    LET cats == Deref(s._categories)
        order == LevelOrder(Len(cats))
    IN [k \in DOMAIN order |-> LevelPts(cats[order[k]], s._categories_len)]

\* _SeriesDataMoreDetails.cat_xml with _cat_tmpl: the blocks are wrapped in
\* <c:lvl> only when the categories are multi-level
MoreDetails_cat_xml(s) ==
    IF s._categories_len > 0
    THEN [present |-> TRUE, ref |-> prefix(s), f |-> MoreDetails_categories_ref(s),
          ptCount |-> s._categories_len,
          lvl |-> IF is_cat_multilvl(s) THEN MoreDetails_cat_blocks(s) ELSE <<>>,
          pt |-> IF is_cat_multilvl(s) THEN <<>>
                 ELSE Concat(MoreDetails_cat_blocks(s))]
    ELSE [present |-> FALSE]

\* mutant of MoreDetails_values_ref: the end row is values_len
MoreDetails_values_refShort(s) ==
    RangeRef(MoreDetails_col_letter(s), 2,
             MoreDetails_col_letter(s), s._values_len)

\* _SeriesDataMoreDetails._values_ref
MoreDetails_values_ref(s) ==
    RangeRef(MoreDetails_col_letter(s), 2,
             MoreDetails_col_letter(s), s._values_len + 1)

\* mutant of MoreDetails_val_pts: the bound lets idx = values_len through
RECURSIVE ValPtsUpToLen(_, _)
ValPtsUpToLen(values, values_len) ==
    IF values = <<>> THEN <<>>
    ELSE (IF Head(values)[1] <= values_len
          THEN <<Pt(Head(values)[1], PyStr(Head(values)[2]))>> ELSE <<>>)
         \o ValPtsUpToLen(Tail(values), values_len)

\* _SeriesDataMoreDetails._val_pt_xml: the points with idx < values_len
RECURSIVE MoreDetails_val_pts(_, _)
MoreDetails_val_pts(values, values_len) ==
    IF values = <<>> THEN <<>>
    ELSE (IF Head(values)[1] < values_len
          THEN <<Pt(Head(values)[1], PyStr(Head(values)[2]))>> ELSE <<>>)
         \o MoreDetails_val_pts(Tail(values), values_len)

\* _SeriesDataMoreDetails.val_xml with _val_tmpl
MoreDetails_val_xml(s) ==
    [present |-> TRUE, ref |-> "numRef", f |-> MoreDetails_values_ref(s),
     formatCode |-> s._format_code, ptCount |-> s._values_len,
     lvl |-> <<>>, pt |-> MoreDetails_val_pts(s._values, s._values_len)]

----------------------------------------------------------------------------
(* The fragments of a series of the data set, by its class *)

_col_letter(s) ==
    IF cls = ClsSimple THEN SeriesData_col_letter(s) ELSE MoreDetails_col_letter(s)

\* _SeriesData._series_name_ref, inherited by _SeriesDataMoreDetails
_series_name_ref(s) == CellRef(_col_letter(s), 1)

\* _SeriesData.tx_xml with _tx_tmpl, inherited by _SeriesDataMoreDetails
tx_xml(s) ==
    [present |-> TRUE, ref |-> "strRef", f |-> _series_name_ref(s),
     ptCount |-> 1, lvl |-> <<>>, pt |-> <<Pt(0, escape(s._name))>>]

cat_xml(s) ==
    IF cls = ClsSimple THEN SeriesData_cat_xml(s) ELSE MoreDetails_cat_xml(s)

val_xml(s) ==
    IF cls = ClsSimple THEN SeriesData_val_xml(s) ELSE MoreDetails_val_xml(s)

_values_ref(s) ==
    IF cls = ClsSimple THEN SeriesData_values_ref(s) ELSE MoreDetails_values_ref(s)

----------------------------------------------------------------------------
(* WorkbookWriter._populate_worksheet: the cells written, rows and columns
   counted from 0 as worksheet.write takes them *)

\* xlsx_blob passes self.categories, the current contents of the list
WorksheetCategories == _categories

\* the branch taken for categories whose first element is a list or tuple
CategoriesAreLevels ==
    Len(WorksheetCategories) # 0 /\ cls = ClsDetailed

value_start_col ==
    IF CategoriesAreLevels THEN Len(WorksheetCategories) ELSE 1

series_col(s) == s._series_idx + value_start_col

\* the cells of the categories
CategoryCells ==
    IF CategoriesAreLevels
    THEN UNION {{[row |-> 1 + WorksheetCategories[ilvl][k][1], col |-> ilvl - 1,
                  token |-> WorksheetCategories[ilvl][k][2]] :
                    k \in DOMAIN WorksheetCategories[ilvl]} :
                  ilvl \in DOMAIN WorksheetCategories}
    ELSE {[row |-> k, col |-> 0, token |-> WorksheetCategories[k]] :
             k \in DOMAIN WorksheetCategories}

\* the header cell of a series
HeaderCell(s) == [row |-> 0, col |-> series_col(s), token |-> s._name]

\* the branch taken for values whose first element is a tuple
ValuesArePairs(s) == Len(s._values) # 0 /\ cls = ClsDetailed

\* the value cells of a series
ValueCells(s) ==
    IF ValuesArePairs(s)
    THEN {[row |-> 1 + s._values[k][1], col |-> series_col(s),
           token |-> s._values[k][2]] : k \in DOMAIN s._values}
    ELSE {[row |-> k, col |-> series_col(s), token |-> s._values[k]] :
             k \in DOMAIN s._values}

----------------------------------------------------------------------------
(* The reader: parse_xml and the element classes of oxml/chart/series.py *)

\* the entity references an XML parser knows without a DTD
Entities ==
    {[name |-> <<"&", "a", "m", "p", ";">>, char |-> "&"],
     [name |-> <<"&", "l", "t", ";">>, char |-> "<"],
     [name |-> <<"&", "g", "t", ";">>, char |-> ">"],
     [name |-> <<"&", "q", "u", "o", "t", ";">>, char |-> "\""],
     [name |-> <<"&", "a", "p", "o", "s", ";">>, char |-> "'"]}

StartsWith(text, p) == Len(text) >= Len(p) /\ SubSeq(text, 1, Len(p)) = p

EntityAt(text) == {e \in Entities : StartsWith(text, e.name)}

\* whether the text between <c:v> and </c:v> parses as character data
RECURSIVE XmlTextOk(_)
XmlTextOk(raw) ==
    IF raw = <<>> THEN TRUE
    ELSE IF Head(raw) = "<" THEN FALSE
    ELSE IF Head(raw) = "&"
         THEN /\ EntityAt(raw) # {}
              /\ LET e == CHOOSE e \in EntityAt(raw) : TRUE
                 IN XmlTextOk(SubSeq(raw, Len(e.name) + 1, Len(raw)))
    ELSE XmlTextOk(Tail(raw))

\* the character data the parser hands out: entity references replaced
RECURSIVE XmlText(_)
XmlText(raw) ==
    IF raw = <<>> THEN <<>>
    ELSE IF Head(raw) = "&"
         THEN LET e == CHOOSE e \in EntityAt(raw) : TRUE
              IN <<e.char>> \o XmlText(SubSeq(raw, Len(e.name) + 1, Len(raw)))
    ELSE <<Head(raw)>> \o XmlText(Tail(raw))

\* the points of a fragment, under the cache or under its <c:lvl> children
FragmentPts(x) == x.pt \o Concat(x.lvl)

\* parse_xml accepts the fragment
WellFormed(x) == \A i \in DOMAIN FragmentPts(x) : XmlTextOk(FragmentPts(x)[i].v)

\* int(text) of decimal digits
RECURSIVE ParseNat(_)
ParseNat(text) ==
    IF text = <<>> THEN 0
    ELSE 10 * ParseNat(SubSeq(text, 1, Len(text) - 1))
         + (CHOOSE d \in 0..9 : Digits[d + 1] = text[Len(text)])

IsNatText(text) ==
    text # <<>> /\ \A i \in DOMAIN text : \E d \in 1..10 : Digits[d] = text[i]

\* float(text) succeeds
IsNumberText(text) ==
    IF text # <<>> /\ Head(text) = "-" THEN IsNatText(Tail(text)) ELSE IsNatText(text)

\* float(text)
ParseNumber(text) ==
    IF Head(text) = "-" THEN 0 - ParseNat(Tail(text)) ELSE ParseNat(text)

\* _PtMixin.tuple_pts: (pt.idx, pt.v.text) of each point
tuple_pts(pts) == [i \in DOMAIN pts |-> <<ParseNat(pts[i].idx), XmlText(pts[i].v)>>]

\* CT_NumCache.tuple_pts: float(pt.v.text), or the text when that fails
NumCache_tuple_pts(pts) ==
    [i \in DOMAIN pts |->
        <<ParseNat(pts[i].idx),
          IF IsNumberText(XmlText(pts[i].v)) THEN ParseNumber(XmlText(pts[i].v))
          ELSE XmlText(pts[i].v)>>]

\* parse_xml raises on this text
ParseError == [ok |-> FALSE]

\* CT_Cat.is_multilvl
is_multilvl(x) == x.ref = "multiLvlStrRef"

\* CT_Cat.tuples_pts of the parsed category fragment
CT_Cat_tuples_pts(x) ==
    IF ~WellFormed(x) THEN ParseError
    ELSE [ok |-> TRUE,
          tuples |-> IF is_multilvl(x)
                     THEN [k \in DOMAIN x.lvl |-> tuple_pts(x.lvl[k])]
                     ELSE <<tuple_pts(x.pt)>>]

\* CT_Val.tuples_pts (_Base_Seq.tuples_pts) of the parsed value fragment
CT_Val_tuples_pts(x) ==
    IF ~WellFormed(x) THEN ParseError
    ELSE [ok |-> TRUE, tuples |-> NumCache_tuple_pts(x.pt)]

----------------------------------------------------------------------------
(* The reader on a parsed <c:ser> element.  The element is a record of what
   its <c:val>/<c:numRef> holds: whether the <c:numCache> child is there,
   whether the cache has its <c:ptCount> child and the val of it, and the
   <c:pt> children of the cache in document order. *)

\* the <c:pt> elements a document may hold; one index has two digits
Points ==
    {Pt(idx, v) : idx \in (0..MaxIdx) \cup {MaxIdx + 8}, v \in {<<"7">>, <<"x">>}}

\* the sequences of at most MaxPts points, in any document order
PtSeqs == UNION {[1..k -> Points] : k \in 0..MaxPts}

\* the parsed elements: a <c:numRef> without cache, and a cache holding
\* points, with and without its <c:ptCount>
SeriesElements ==
    {[hasCache |-> FALSE, hasPtCount |-> FALSE, ptCount |-> 0, pt |-> <<>>]}
    \cup {[hasCache |-> TRUE, hasPtCount |-> h,
           ptCount |-> IF h THEN Len(p) ELSE 0, pt |-> p] :
              h \in BOOLEAN, p \in PtSeqs}

\* the error the getter of a OneAndOnlyOne child raises
InvalidXmlError == [ok |-> FALSE, error |-> "InvalidXmlError"]

\* the getter of a OneAndOnlyOne child: the child, or the error when the
\* child is not there
OneAndOnlyOne(present, child) == IF present THEN child ELSE InvalidXmlError

\* pt.idx, the key val_pts sorts by
PtIdx(pt) == ParseNat(pt.idx)

\* sorted(..., key=idx) of a sorted sequence and one more element: the
\* element goes behind the elements whose key is not greater
InsertByIdx(done, pt) ==
    LET n == Cardinality({i \in DOMAIN done : PtIdx(done[i]) <= PtIdx(pt)})
    IN SubSeq(done, 1, n) \o <<pt>> \o SubSeq(done, n + 1, Len(done))

\* sorted(val_pts, key=lambda pt: pt.idx): ascending and stable
RECURSIVE sorted(_)
sorted(pts) ==
    IF pts = <<>> THEN <<>>
    ELSE InsertByIdx(sorted(SubSeq(pts, 1, Len(pts) - 1)), pts[Len(pts)])

\* self.xpath('./c:val//c:pt'): the points in document order
xpath_val_pt(e) == e.pt

\* mutant of val_pts: the points in document order
val_ptsUnsorted(e) == xpath_val_pt(e)

\* CT_SeriesComposite.val_pts
val_pts(e) == sorted(xpath_val_pt(e))

\* ref.cache of the <c:numRef>
Ref_cache(e) == OneAndOnlyOne(e.hasCache, [ok |-> TRUE])

\* cache.ptCount of the <c:numCache>
Cache_ptCount(e) == OneAndOnlyOne(e.hasPtCount, [ok |-> TRUE, value |-> e.ptCount])

\* _Base_Seq.tuples_pts of the <c:val>: self.ref.cache.tuple_pts
Base_Seq_tuples_pts(e) ==
    IF ~Ref_cache(e).ok THEN Ref_cache(e)
    ELSE [ok |-> TRUE, value |-> NumCache_tuple_pts(e.pt)]

\* _Base_Seq.val_ptCount of the <c:val>: self.ref.cache.ptCount.val
Base_Seq_val_ptCount(e) ==
    IF ~Ref_cache(e).ok THEN Ref_cache(e) ELSE Cache_ptCount(e)

\* a caller reads ser.val_pts
Read_val_pts ==
    /\ result' = [op |-> "val_pts", value |-> val_pts(ser)]
    /\ UNCHANGED <<cls, _categories, _series_lst, _categories_len, _values_len,
                   warnings, ser>>

\* a caller reads ser.val.tuples_pts
Read_tuples_pts ==
    /\ result' = [op |-> "tuples_pts", value |-> Base_Seq_tuples_pts(ser)]
    /\ UNCHANGED <<cls, _categories, _series_lst, _categories_len, _values_len,
                   warnings, ser>>

\* a caller reads ser.val.val_ptCount
Read_val_ptCount ==
    /\ result' = [op |-> "val_ptCount", value |-> Base_Seq_val_ptCount(ser)]
    /\ UNCHANGED <<cls, _categories, _series_lst, _categories_len, _values_len,
                   warnings, ser>>

----------------------------------------------------------------------------
(* Specifications *)

\* Spec: a data set of either class with up to MaxSeries series, every
\* operation of the classes, the narrower inputs.
Next ==
    \/ \E name \in Names, values \in DenseValues :
           /\ Len(_series_lst) < MaxSeries
           /\ ChartData_add_series(name, values)
    \/ \E name \in FewNames, values \in FewSparseValues,
          values_len \in {None} \cup FewLens, format_code \in FewFormatCodes :
           /\ Len(_series_lst) < MaxSeries
           /\ ChartDataMoreDetails_add_series(name, values, values_len, format_code)
    \/ \E cats \in FlatCategories(1) : cls = ClsSimple /\ ChartData_set_categories(cats)
    \/ \E cats \in FewLevelCategories :
           cls = ClsDetailed /\ ChartData_set_categories(cats)
    \/ \E value \in FewLens : ChartDataMoreDetails_set_categories_len(value)
    \/ \E value \in FewLens : ChartDataMoreDetails_set_values_len(value)
    \/ \E i \in DOMAIN _series_lst, value \in FewLens :
           Series_set_categories_len(i, value)
    \/ \E i \in DOMAIN _series_lst, value \in FewLens :
           Series_set_values_len(i, value)
    \/ \E i \in DOMAIN _series_lst, value \in FewNames : Series_set_name(i, value)
    \/ \E i \in DOMAIN _series_lst, values \in FewSparseValues :
           Series_set_values(i, values)

Spec == Init /\ [][Next]_vars

\* SpecSingle: a data set of either class holding a single series, every
\* operation of the classes, the wider inputs.
NextSingle ==
    \/ \E name \in Names, values \in DenseValues :
           /\ _series_lst = <<>>
           /\ ChartData_add_series(name, values)
    \/ \E name \in Names, values \in SparseValues,
          values_len \in {None} \cup Lens, format_code \in FormatCodes :
           /\ _series_lst = <<>>
           /\ ChartDataMoreDetails_add_series(name, values, values_len, format_code)
    \/ \E cats \in FlatCategories(MaxLen) :
           cls = ClsSimple /\ ChartData_set_categories(cats)
    \/ \E cats \in LevelCategories :
           cls = ClsDetailed /\ ChartData_set_categories(cats)
    \/ \E value \in Lens : ChartDataMoreDetails_set_categories_len(value)
    \/ \E value \in Lens : ChartDataMoreDetails_set_values_len(value)
    \/ \E i \in DOMAIN _series_lst, value \in Lens :
           Series_set_categories_len(i, value)
    \/ \E i \in DOMAIN _series_lst, value \in Lens :
           Series_set_values_len(i, value)
    \/ \E i \in DOMAIN _series_lst, value \in Names : Series_set_name(i, value)
    \/ \E i \in DOMAIN _series_lst, values \in SparseValues :
           Series_set_values(i, values)

SpecSingle == Init /\ [][NextSingle]_vars

\* SpecCapacity: a ChartData data set that grows to MaxCapSeries series.
InitCapacity == Init /\ cls = ClsSimple

NextCapacity ==
    \/ \E name \in FewNames, values \in {<<7, 120>>} :
           /\ Len(_series_lst) < MaxCapSeries
           /\ ChartData_add_series(name, values)
    \/ \E cats \in FlatCategories(MaxLen) : ChartData_set_categories(cats)

SpecCapacity == InitCapacity /\ [][NextCapacity]_vars

\* SpecReader: a reader holding one parsed <c:ser> element, any of
\* SeriesElements, and reading from it.
InitReader ==
    /\ cls = ClsSimple
    /\ _categories = <<>>
    /\ _series_lst = <<>>
    /\ _categories_len = None
    /\ _values_len = None
    /\ warnings = {}
    /\ ser \in SeriesElements
    /\ result = NotRead

NextReader ==
    \/ Read_val_pts
    \/ Read_tuples_pts
    \/ Read_val_ptCount

SpecReader == InitReader /\ [][NextReader]_vars

----------------------------------------------------------------------------
(* Claims *)

\* the series of a Detailed data set
IsDetailed == cls = ClsDetailed

\* the series of a Simple data set
IsSimple == cls = ClsSimple

\* series s as it would be if it held the data set's current categories
WithCurrentCategories(s) == [s EXCEPT !._categories = categories]

\* C1: live aliasing.  In every reachable state of a data set of either
\* class, the category fragment of every series already added is the one
\* built from the data set's current categories, not from the categories
\* present when the series was added.
C1_LiveAliasing ==
    \A i \in DOMAIN _series_lst :
        cat_xml(_series_lst[i]) = cat_xml(WithCurrentCategories(_series_lst[i]))

\* C2: the worksheet column into which _populate_worksheet writes a series'
\* header and values is the column named in the series' name reference and
\* in its values reference, and a point with index i is written at
\* worksheet row i + 2 (row i + 1 counted from 0).
C2_AddressAgreement ==
    \A i \in DOMAIN _series_lst :
        LET s == _series_lst[i]
        IN /\ ColumnOf(_series_name_ref(s).col) = HeaderCell(s).col
           /\ _series_name_ref(s).row = HeaderCell(s).row + 1
           /\ \A c \in ValueCells(s) :
                  /\ ColumnOf(_values_ref(s).col1) = c.col
                  /\ ColumnOf(_values_ref(s).col2) = c.col
           /\ IF IsDetailed /\ s._values # <<>>
              THEN \A k \in DOMAIN s._values :
                      \E c \in ValueCells(s) :
                          c.row + 1 = s._values[k][1] + 2 /\ c.token = s._values[k][2]
              ELSE \A k \in DOMAIN s._values :
                      \E c \in ValueCells(s) :
                          c.row + 1 = (k - 1) + 2 /\ c.token = s._values[k]

\* C3: the k-th series added (from 0) has index k.  In every step the series
\* already in the list keep their place and their index, a series that
\* enters the list gets the series count before its append as its index, and
\* the indices of the list are 0..n-1 in insertion order.
C3_IndexAssignedOnce ==
    [][/\ \A i \in DOMAIN _series_lst :
              /\ i \in DOMAIN _series_lst'
              /\ _series_lst'[i]._series_idx = _series_lst[i]._series_idx
       /\ \A i \in DOMAIN _series_lst' :
              /\ i \notin DOMAIN _series_lst
                    => _series_lst'[i]._series_idx = Len(_series_lst)
              /\ _series_lst'[i]._series_idx = i - 1]_vars

\* C3 witness: a Detailed data set with MaxSeries series, the last of index
\* MaxSeries - 1, after categories and lengths were assigned and the first
\* series' values and length were reassigned.
C3_Witness ==
    /\ IsDetailed
    /\ Len(_series_lst) = MaxSeries
    /\ _series_lst[MaxSeries]._series_idx = MaxSeries - 1
    /\ _categories # <<>> /\ _values_len # None /\ _categories_len # None
    /\ _series_lst[1]._values_len # _series_lst[MaxSeries]._values_len
    /\ _series_lst[1]._values # _series_lst[MaxSeries]._values

\* C4: assigning values to a Detailed series re-derives values_len as
\* (maximum index of the new pairs) + 1 exactly when values_len was not
\* supplied at construction; when it was supplied, the assignment leaves
\* values_len as it was.
C4_AutoValuesLen ==
    [][\A i \in DOMAIN _series_lst, values \in SparseValues :
           Series_set_values(i, values) =>
               IF _series_lst[i].supplied
               THEN _series_lst'[i]._values_len = _series_lst[i]._values_len
               ELSE _series_lst'[i]._values_len = MaxIndex(values) + 1]_vars

\* a series whose values_len differs from its categories_len
Mismatch(s) == s._values_len # s._categories_len

\* C5: whenever add_series, an assignment of values_len or categories_len on
\* a series, or an assignment of values_len or categories_len on the data
\* set leaves a Detailed series with values_len different from its
\* categories_len, that operation reports a warning.
C5_MismatchSurfaced ==
    [][/\ \A name \in Names, values \in SparseValues,
             values_len \in {None} \cup Lens, format_code \in FormatCodes :
              ChartDataMoreDetails_add_series(name, values, values_len, format_code)
                  => (Mismatch(_series_lst'[Len(_series_lst')]) => warnings' # {})
       /\ \A i \in DOMAIN _series_lst, value \in Lens :
              /\ Series_set_values_len(i, value)
                    => (Mismatch(_series_lst'[i]) => warnings' # {})
              /\ Series_set_categories_len(i, value)
                    => (Mismatch(_series_lst'[i]) => warnings' # {})
       /\ \A value \in Lens :
              /\ ChartDataMoreDetails_set_values_len(value)
                    => ((\E i \in DOMAIN _series_lst' : Mismatch(_series_lst'[i]))
                           => warnings' # {})
              /\ ChartDataMoreDetails_set_categories_len(value)
                    => ((\E i \in DOMAIN _series_lst' : Mismatch(_series_lst'[i]))
                           => warnings' # {})]_vars

\* C6: no Simple series ever produces a name reference or a values reference
\* whose column is not a valid spreadsheet column, distinct from the column
\* of every other series (a series beyond the single-letter columns B..Z is
\* refused instead).
C6_SimpleCapacity ==
    IsSimple =>
        \A i \in DOMAIN _series_lst :
            LET s == _series_lst[i]
            IN /\ ColumnOf(_series_name_ref(s).col) # None
               /\ ColumnOf(_values_ref(s).col1) # None
               /\ ColumnOf(_values_ref(s).col2) # None
               /\ \A j \in DOMAIN _series_lst :
                      j # i => _series_name_ref(_series_lst[j]).col
                                  # _series_name_ref(s).col

\* the (idx, value) pairs of a series with idx < values_len, in order
PairsInRange(s) == SelectSeq(s._values, LAMBDA p : p[1] < s._values_len)

\* C7: the value fragment of every Detailed series declares values_len as its
\* point count, references rows 2..values_len+1 of the series' column, and
\* holds one point for each supplied pair with idx < values_len, in the order
\* supplied, and no point for a pair with idx >= values_len.
C7_SparseTruncation ==
    IsDetailed =>
        \A i \in DOMAIN _series_lst :
            LET s == _series_lst[i]
                x == val_xml(s)
                kept == PairsInRange(s)
            IN /\ x.ptCount = s._values_len
               /\ x.f.row1 = 2 /\ x.f.row2 = s._values_len + 1
               /\ x.f.col1 = x.f.col2
               /\ Len(x.pt) = Len(kept)
               /\ \A k \in DOMAIN kept :
                      /\ ParseNat(x.pt[k].idx) = kept[k][1]
                      /\ ParseNumber(x.pt[k].v) = kept[k][2]
               /\ \A k \in DOMAIN s._values :
                      s._values[k][1] >= s._values_len =>
                          \A j \in DOMAIN x.pt : ParseNat(x.pt[j].idx) # s._values[k][1]

\* C7 witness: a Detailed series with a pair below values_len and a pair at
\* or beyond it.
C7_Witness ==
    /\ IsDetailed
    /\ \E i \in DOMAIN _series_lst :
           LET s == _series_lst[i]
           IN /\ \E k \in DOMAIN s._values : s._values[k][1] >= s._values_len
              /\ \E k \in DOMAIN s._values : s._values[k][1] < s._values_len
              /\ Len(val_xml(s).pt) = 1

\* C8: for every Detailed series the value cells the planner writes are the
\* cells (row idx + 2, series column) of the pairs with idx < values_len, so
\* they are the cells of the points of the series' value fragment.
C8_PlannerTruncation ==
    IsDetailed =>
        \A i \in DOMAIN _series_lst :
            LET s == _series_lst[i]
                x == val_xml(s)
            IN {<<c.row + 1, c.token>> : c \in ValueCells(s)}
                   = {<<ParseNat(x.pt[k].idx) + 2, ParseNumber(x.pt[k].v)>> :
                         k \in DOMAIN x.pt}

\* the points of one category level with idx < categories_len, in order
LevelInRange(lvl, categories_len) ==
    LET kept == SelectSeq(lvl, LAMBDA p : p[1] < categories_len)
    IN [k \in DOMAIN kept |-> [idx |-> PyStr(kept[k][1]), v |-> kept[k][2]]]

\* the category fragment of s holds one block per level, the last level
\* first, each with that level's points of idx < categories_len in order
ReversedLevelBlocks(s) ==
    LET cats == Deref(s._categories)
        n == Len(cats)
        x == cat_xml(s)
    IN /\ x.present
       /\ Len(x.lvl) = n
       /\ \A k \in 1..n :
              x.lvl[k] = LevelInRange(cats[n + 1 - k], s._categories_len)

\* C9 as stated: the category fragment of every Detailed series with two or
\* more levels emits one level block per level in reverse declaration order,
\* each holding that level's points with idx < categories_len in order.
C9_MultiLevelReversal ==
    IsDetailed =>
        \A i \in DOMAIN _series_lst :
            Len(Deref(_series_lst[i]._categories)) >= 2
                => ReversedLevelBlocks(_series_lst[i])

\* C9 amended: the same, for a series whose categories_len is greater than 0;
\* a series whose categories_len is not greater than 0 has an empty category
\* fragment, with no level block.
C9_MultiLevelReversalAmended ==
    IsDetailed =>
        \A i \in DOMAIN _series_lst :
            Len(Deref(_series_lst[i]._categories)) >= 2 =>
                IF _series_lst[i]._categories_len > 0
                THEN ReversedLevelBlocks(_series_lst[i])
                ELSE ~cat_xml(_series_lst[i]).present

\* C9 witness: a Detailed series with two levels that differ, a positive
\* categories_len and a category point at or beyond it, which is dropped.
C9_Witness ==
    /\ IsDetailed
    /\ \E i \in DOMAIN _series_lst :
           LET s == _series_lst[i]
               cats == Deref(s._categories)
           IN /\ Len(cats) = 2 /\ cats[1] # cats[2]
              /\ s._categories_len > 0
              /\ \E k \in DOMAIN cats[2] : cats[2][k][1] >= s._categories_len
              /\ cat_xml(s).lvl[1] # <<>>
              /\ Len(cat_xml(s).lvl[1]) < Len(cats[2])

\* C10: round trip.  For every Simple series, reading the rendered category
\* fragment gives the tuples (i, label_i), i = 0..n-1, and reading the
\* rendered value fragment gives the tuples (j, value_j), j = 0..m-1.
C10_RoundTrip ==
    IsSimple =>
        \A i \in DOMAIN _series_lst :
            LET s == _series_lst[i]
                cats == Deref(s._categories)
                rcat == CT_Cat_tuples_pts(cat_xml(s))
                rval == CT_Val_tuples_pts(val_xml(s))
            IN /\ rcat.ok
               /\ rcat.tuples = <<[k \in DOMAIN cats |-> <<k - 1, cats[k]>>]>>
               /\ rval.ok
               /\ rval.tuples = [k \in DOMAIN s._values |-> <<k - 1, s._values[k]>>]

\* the text with each of the five XML special characters replaced by its
\* entity reference
EscapeAll(text) ==
    Concat([i \in DOMAIN text |->
               IF \E e \in Entities : e.char = text[i]
               THEN (CHOOSE e \in Entities : e.char = text[i]).name
               ELSE <<text[i]>>])

\* the labels of the categories a series holds
SourceLabels(s) ==
    LET cats == Deref(s._categories)
    IN IF IsSimple THEN Range(cats)
       ELSE UNION {{lvl[k][2] : k \in DOMAIN lvl} : lvl \in Range(cats)}

\* C11: XML escaping.  For every series of either class, the point of the
\* name fragment holds the series name with the five XML special characters
\* escaped, and every point of the category fragment holds a category label
\* with the five XML special characters escaped.
C11_XmlEscaping ==
    \A i \in DOMAIN _series_lst :
        LET s == _series_lst[i]
            x == cat_xml(s)
        IN /\ tx_xml(s).pt[1].v = EscapeAll(s._name)
           /\ x.present =>
                  \A k \in DOMAIN FragmentPts(x) :
                      \E label \in SourceLabels(s) :
                          FragmentPts(x)[k].v = EscapeAll(label)

\* C12: malformed read.  Reading the point tuples or the point count from a
\* <c:numRef> that has no cache child, or from a cache that has no
\* <c:ptCount> child, raises InvalidXmlError and returns nothing.
C12_MalformedRead ==
    (/\ result.op \in {"tuples_pts", "val_ptCount"}
     /\ (~ser.hasCache \/ ~ser.hasPtCount))
        => result.value = InvalidXmlError

\* the number of places of the sequence that hold pt
Count(pts, pt) == Cardinality({i \in DOMAIN pts : pts[i] = pt})

\* C13: val_pts returns exactly the <c:pt> elements under the <c:val> child,
\* each once, in ascending order of idx whatever their document order.
C13_ValPtsSorted ==
    result.op = "val_pts" =>
        /\ Len(result.value) = Len(ser.pt)
        /\ \A pt \in Points : Count(result.value, pt) = Count(ser.pt, pt)
        /\ \A i, j \in DOMAIN result.value :
               i < j => PtIdx(result.value[i]) <= PtIdx(result.value[j])

\* C13 witness: val_pts has been read from an element whose points are not
\* in index order in the document, a two-digit index before a one-digit one.
C13_Witness ==
    /\ result.op = "val_pts"
    /\ Len(ser.pt) >= 2
    /\ PtIdx(ser.pt[1]) > 9
    /\ PtIdx(ser.pt[2]) \in 1..9
    /\ result.value # ser.pt

\* the series the latest add_series appended
Added == _series_lst'[Len(_series_lst')]

\* C14: format code propagation.  The value fragment of a Detailed series
\* declares, from the step that adds it, the format code passed to
\* add_series, or "General" when none was passed; the value fragment of a
\* Simple series declares "General"; no step of the data set or the series
\* changes the format code a series' value fragment declares.
C14_FormatCodePropagation ==
    [][/\ Len(_series_lst') > Len(_series_lst) =>
              \A name \in Names, values \in SparseValues,
                 values_len \in {None} \cup Lens, format_code \in FormatCodes :
                  ChartDataMoreDetails_add_series(name, values, values_len, format_code)
                      => val_xml(Added).formatCode
                             = IF format_code = NoFormatCode THEN "General"
                               ELSE format_code
       /\ IsSimple =>
              \A i \in DOMAIN _series_lst' :
                  val_xml(_series_lst'[i]).formatCode = "General"
       /\ \A i \in DOMAIN _series_lst \cap DOMAIN _series_lst' :
              _series_lst'[i] # _series_lst[i] =>
                  val_xml(_series_lst'[i]).formatCode
                      = val_xml(_series_lst[i]).formatCode]_vars

\* C14 witness: a Detailed series added with format code "0.00%" declares it
\* after its values and the lengths of the data set have been assigned.
C14_Witness ==
    /\ IsDetailed
    /\ _values_len # None /\ _categories_len # None
    /\ \E i \in DOMAIN _series_lst :
           /\ val_xml(_series_lst[i]).formatCode = "0.00%"
           /\ _series_lst[i]._values = SparseC

\* C15: data-set-level lengths.  A step that assigns values_len = v
\* (categories_len = c) on a ChartDataMoreDetails leaves every series of the
\* data set with values_len = v (categories_len = c), and a step that adds a
\* series without a values_len of its own while the data set holds the
\* assigned values_len v (categories_len c) gives the series values_len = v
\* (categories_len = c).
C15_DataSetLengths ==
    [][/\ \A v \in Lens :
              ChartDataMoreDetails_set_values_len(v) =>
                  \A i \in DOMAIN _series_lst' : _series_lst'[i]._values_len = v
       /\ \A c \in Lens :
              ChartDataMoreDetails_set_categories_len(c) =>
                  \A i \in DOMAIN _series_lst' : _series_lst'[i]._categories_len = c
       /\ Len(_series_lst') > Len(_series_lst) =>
              \A name \in Names, values \in SparseValues, format_code \in FormatCodes :
                  ChartDataMoreDetails_add_series(name, values, None, format_code) =>
                      /\ _values_len # None => Added._values_len = _values_len
                      /\ _categories_len # None =>
                             Added._categories_len = _categories_len]_vars

\* the rows of a range reference are 2..n + 1
RowsFor(f, n) == f.row1 = 2 /\ f.row2 = n + 1

\* the fragment references the rows 2..N + 1 for the point count N it
\* declares, and every point of it has an index less than N
CountAgrees(x) ==
    /\ RowsFor(x.f, x.ptCount)
    /\ \A k \in DOMAIN FragmentPts(x) : ParseNat(FragmentPts(x)[k].idx) < x.ptCount

\* C16: in every reachable state, for every series of either class, the
\* category fragment (when the series has one) and the value fragment
\* declare a point count N, reference the rows 2..N + 1 and hold only points
\* of index less than N; the name fragment declares point count 1,
\* references a single cell of row 1 and holds exactly the point of index 0.
C16_RangeAndCountAgree ==
    \A i \in DOMAIN _series_lst :
        LET s == _series_lst[i]
            tx == tx_xml(s)
        IN /\ cat_xml(s).present => CountAgrees(cat_xml(s))
           /\ CountAgrees(val_xml(s))
           /\ tx.ptCount = 1
           /\ DOMAIN tx.f = {"sheet", "col", "row"} /\ tx.f.row = 1
           /\ Len(tx.pt) = 1 /\ ParseNat(tx.pt[1].idx) = 0

\* C16 witness: a Detailed series with a category fragment of two levels,
\* whose value fragment declares a count greater than 0 and has lost a point
\* of index not less than the count.
C16_Witness ==
    /\ IsDetailed
    /\ \E i \in DOMAIN _series_lst :
           LET s == _series_lst[i]
           IN /\ cat_xml(s).present /\ Len(cat_xml(s).lvl) = 2
              /\ val_xml(s).ptCount > 0
              /\ val_xml(s).f.row2 = val_xml(s).ptCount + 1
              /\ Len(val_xml(s).pt) < Len(s._values)

====
